---- MODULE Spec2Model ----
(***************************************************************************)
(* Model of daily_signal_generator.py: the daily ETF premium run (main),   *)
(* the premium computation (calc_premium), the persisted history           *)
(* (load_history / save_history) and the Telegram notifications.           *)
(*                                                                         *)
(* Numbers: a premium is a Python float.  The model keeps the unrounded    *)
(* premium as an exact fraction num/den (den > 0) and a stored premium     *)
(* (round(x, 2)) as an integer number of hundredths.  Dates are ISO        *)
(* strings in the code and day ordinals here (only equality is used).      *)
(***************************************************************************)
EXTENDS Integers, Sequences, FiniteSets, TLC

VARIABLES file,         \* gold_premium_history.json
          file0,        \* the file as it was when the current run started
          pc,           \* position of main()
          today, info, history, change, avg7, level, trend, time_str,
          full_msg,     \* locals of main()
          exc,          \* the exception caught by main's handler, if any
          calls,        \* file and Telegram operations of the current run
          incident_len, \* length of the incident text handed to Telegram
          logged,       \* the failed incident notification was printed
          escaped,      \* an exception left main()
          failed_at,    \* position of main() where exc was raised
          quotes,       \* the ticker.info answers the current run fetched
          clock,        \* reporting day of the latest run
          clock_back,   \* some run started on an earlier day than the run before
          rt_in, rt_out, rt_pc   \* save/load round trip on its own

vars == <<file, file0, pc, today, info, history, change, avg7, level, trend,
          time_str, full_msg, exc, calls, incident_len, logged, escaped,
          failed_at, quotes, clock, clock_back, rt_in, rt_out, rt_pc>>

(* ------------------------------ bounds --------------------------------- *)
MaxDate == 2          \* reporting days 1..MaxDate
MaxLen == 3           \* a run starts only while the file holds fewer entries
MaxN == 150           \* longest sequence handed to save_history (round trip)

(* ------------------------- program constants --------------------------- *)
HistoryLimit == 100   \* data[-100:]
GraphWindow == 7      \* history[-7:]
TelegramLimit == 4000 \* error_msg[:4000]

\* Python's None / a present value
None == <<>>
Some(v) == <<v>>
Val(x) == x[1]

Dates == 1..MaxDate

(* ------------------------------ numbers -------------------------------- *)
Abs(x) == IF x < 0 THEN -x ELSE x

RECURSIVE GCD(_, _)
GCD(a, b) == IF b = 0 THEN a ELSE GCD(b, a % b)

\* the fraction n/d (d # 0) in lowest terms with a positive denominator
Rat(n, d) ==
    LET g == GCD(Abs(n), Abs(d))
        s == IF d < 0 THEN -1 ELSE 1
    IN  [num |-> s * (n \div g), den |-> Abs(d) \div g]

RatGt(a, b) == a.num * b.den > b.num * a.den
RatEq(a, b) == a.num * b.den = b.num * a.den
RatSub(a, b) == Rat(a.num * b.den - b.num * a.den, a.den * b.den)
Zero == Rat(0, 1)

\* x cut down to the hundredth below instead of the nearest one
round2_floor(x) == (x.num * 100) \div x.den

\* round(x, 2) as hundredths: nearest, exact halves to the even neighbour
round2(x) ==
    LET n == x.num * 100
        q == n \div x.den
        r == n - q * x.den
    IN  IF 2 * r < x.den THEN q
        ELSE IF 2 * r > x.den THEN q + 1
        ELSE IF q % 2 = 0 THEN q ELSE q + 1

\* a stored premium (hundredths) read back as a number
Stored(p) == Rat(p, 100)

(* ------------------------------- JSON ---------------------------------- *)
\* json.dump writes a float as sign, integer digits and fraction digits
FloatRepr(p) == [neg |-> p < 0, int |-> Abs(p) \div 100, frac |-> Abs(p) % 100]
ParseFloat(t) == (IF t.neg THEN -1 ELSE 1) * (t.int * 100 + t.frac)

\* in-memory elements: an observation dict, or a bare number (foreign content)
Obs(d, p, t) == [t |-> "obs", date |-> d, premium |-> p, time_kst |-> t]
NumElem == [t |-> "num", date |-> 0, premium |-> 0, time_kst |-> <<>>]

EncodeItem(e) == [t |-> e.t, date |-> <<"day", e.date>>,
                  premium |-> FloatRepr(e.premium), time_kst |-> e.time_kst]
DecodeItem(j) == [t |-> j.t, date |-> j.date[2],
                  premium |-> ParseFloat(j.premium), time_kst |-> j.time_kst]

EncodeAll(s) == [i \in 1..Len(s) |-> EncodeItem(s[i])]
DecodeAll(s) == [i \in 1..Len(s) |-> DecodeItem(s[i])]

\* s[-n:]
LastN(s, n) == IF Len(s) <= n THEN s ELSE SubSeq(s, Len(s) - n + 1, Len(s))

\* Python values a history can be: a list, or a dict (from the text "{}")
PyList(items) == [kind |-> "list", items |-> items]
PyDict == [kind |-> "dict", items |-> <<>>]

\* file states: absent, unparseable text, or JSON text of an object / array
Absent == [kind |-> "absent", items |-> <<>>]
Garbage == [kind |-> "garbage", items |-> <<>>]
ObjectText == [kind |-> "object", items |-> <<>>]
ArrayText(items) == [kind |-> "array", items |-> items]

Truthy(h) == h.kind = "list" /\ Len(h.items) > 0

load_history(f) ==
    IF f.kind = "absent" THEN PyList(<<>>)
    ELSE IF f.kind = "garbage" THEN PyList(<<>>)
    ELSE IF f.kind = "object" THEN PyDict
    ELSE PyList(DecodeAll(f.items))

\* data[:100], the oldest entries, where data[-100:] is meant
save_history_oldest(data) ==
    ArrayText(EncodeAll(IF Len(data) <= HistoryLimit THEN data
                        ELSE SubSeq(data, 1, HistoryLimit)))

save_history(data) == ArrayText(EncodeAll(LastN(data, HistoryLimit)))

(* ------------------------------ quotes --------------------------------- *)
\* ticker.info of 411060.KS as Yahoo may return it: with or without a
\* regular market quote (price and time), previous close and NAV
EtfInfos ==
    [regularMarketPrice : {Some(27300)},
     previousClose : {None, Some(26900)},
     navPrice : {None, Some(0), Some(-27000), Some(27000)},
     regularMarketTime : {Some(1700000000)}]
    \cup
    [regularMarketPrice : {None},
     previousClose : {None, Some(26900)},
     navPrice : {None, Some(0), Some(-27000), Some(27000)},
     regularMarketTime : {None}]

\* ticker.info of USDKRW=X and of GC=F
FxInfos == {[regularMarketPrice |-> Some(1310), previousClose |-> Some(1300)],
            [regularMarketPrice |-> Some(1310), previousClose |-> None],
            [regularMarketPrice |-> None, previousClose |-> Some(1300)],
            [regularMarketPrice |-> None, previousClose |-> None]}
GoldInfos == {[regularMarketPrice |-> Some(2020), previousClose |-> Some(2000)],
              [regularMarketPrice |-> None, previousClose |-> None]}

timestamp_to_kst(timestamp) ==
    IF timestamp = None THEN <<"N/A">>
    ELSE <<"KST", Val(timestamp) + 9 * 3600>>

Raise(e) == [raised |-> e, value |-> None]
Return(v) == [raised |-> "", value |-> Some(v)]

get_yahoo_price(data) ==
    LET price == IF data.regularMarketPrice = None THEN data.previousClose
                 ELSE data.regularMarketPrice
    IN  IF price = None THEN Raise("RuntimeError") ELSE Return(Val(price))

get_korean_gold_data(data) ==
    LET market_price == IF data.regularMarketPrice = None THEN data.previousClose
                        ELSE data.regularMarketPrice
        warning_msg == IF data.navPrice = None THEN <<"nav_missing">> ELSE <<>>
    IN  IF market_price = None THEN Raise("RuntimeError")
        ELSE Return([market_price |-> Val(market_price),
                     nav_price |-> data.navPrice,
                     market_time |-> data.regularMarketTime,
                     warning_msg |-> warning_msg])

\* the three fetches in order; the first failure propagates
get_gold_and_fx_data(fx, gold, etf) ==
    LET usd_krw == get_yahoo_price(fx)
        gold_usd == get_yahoo_price(gold)
        k == get_korean_gold_data(etf)
    IN  IF usd_krw.raised # "" THEN Raise(usd_krw.raised)
        ELSE IF gold_usd.raised # "" THEN Raise(gold_usd.raised)
        ELSE IF k.raised # "" THEN Raise(k.raised)
        ELSE Return([market_price |-> Val(k.value).market_price,
                     nav_price |-> Val(k.value).nav_price,
                     usd_krw |-> Val(usd_krw.value),
                     gold_usd |-> Val(gold_usd.value),
                     market_time |-> Val(k.value).market_time,
                     warning_msg |-> Val(k.value).warning_msg])

\* without NAV the market price stands in as the reference: premium 0, not None
calc_premium_neutral(fx, gold, etf) ==
    LET d == get_gold_and_fx_data(fx, gold, etf)
        q == Val(d.value)
    IN  IF d.raised # "" THEN Raise(d.raised)
        ELSE IF q.nav_price # None /\ Val(q.nav_price) = 0
             THEN Raise("ZeroDivisionError")
        ELSE Return(
            [korean |-> q.market_price,
             international_krw |-> IF q.nav_price # None THEN Val(q.nav_price)
                                   ELSE q.market_price,
             usd_krw |-> q.usd_krw,
             gold_usd |-> q.gold_usd,
             premium |-> IF q.nav_price # None
                         THEN Some(Rat((q.market_price - Val(q.nav_price)) * 100,
                                       Val(q.nav_price)))
                         ELSE Some(Zero),
             market_time |-> q.market_time,
             warning_msg |-> q.warning_msg])

\* (market_price / nav_price - 1) * 100 whenever nav_price is not None
calc_premium(fx, gold, etf) ==
    LET d == get_gold_and_fx_data(fx, gold, etf)
        q == Val(d.value)
    IN  IF d.raised # "" THEN Raise(d.raised)
        ELSE IF q.nav_price # None /\ Val(q.nav_price) = 0
             THEN Raise("ZeroDivisionError")
        ELSE Return(
            [korean |-> q.market_price,
             international_krw |-> IF q.nav_price # None THEN Val(q.nav_price)
                                   ELSE q.market_price,
             usd_krw |-> q.usd_krw,
             gold_usd |-> q.gold_usd,
             premium |-> IF q.nav_price # None
                         THEN Some(Rat((q.market_price - Val(q.nav_price)) * 100,
                                       Val(q.nav_price)))
                         ELSE None,
             market_time |-> q.market_time,
             warning_msg |-> q.warning_msg])

(* ------------------------------ analysis ------------------------------- *)
RECURSIVE SumPremium(_)
SumPremium(s) == IF s = <<>> THEN 0 ELSE s[1].premium + SumPremium(Tail(s))

\* sum(last7) / len(last7) if last7 else 0, over history[-7:]
Avg7(items) ==
    LET last7 == LastN(items, GraphWindow)
    IN  IF last7 = <<>> THEN Zero
        ELSE Rat(SumPremium(last7), 100 * Len(last7))

\* "over" if premium > avg7 else "under".  Where the two are equal as exact
\* numbers but come from different float computations, rounding error
\* decides the comparison: either label can come out.
LevelOf(premium, a7, same_float) ==
    IF RatGt(premium, a7) THEN {"over"}
    ELSE IF RatEq(premium, a7) /\ ~same_float THEN {"over", "under"}
    ELSE {"under"}

\* "up" if change > 0 else "down"
TrendOf(chg, same_float) ==
    IF RatGt(chg, Zero) THEN {"up"}
    ELSE IF RatEq(chg, Zero) /\ ~same_float THEN {"up", "down"}
    ELSE {"down"}

\* [h for h in history if h["date"] != today]
RECURSIVE NotToday(_, _)
NotToday(items, d) ==
    IF items = <<>> THEN <<>>
    ELSE IF items[1].date # d THEN <<items[1]>> \o NotToday(Tail(items), d)
    ELSE NotToday(Tail(items), d)

\* history[0], where history[-1] is meant
first_valid_data(h) == h.items[1]

\* last_valid_data = history[-1]
last_valid_data(h) == h.items[Len(h.items)]

\* every run appends, whatever the last entry's date
UpsertAppends(items, new) == Append(items, new)

\* if history and history[-1]["date"] == today: replace, else: append
Upsert(items, new) ==
    IF items # <<>> /\ items[Len(items)].date = new.date
    THEN [items EXCEPT ![Len(items)] = new]
    ELSE Append(items, new)

Call(fn, ok) == [fn |-> fn, ok |-> ok]

RECURSIVE Count(_, _)
Count(s, fn) ==
    IF s = <<>> THEN 0
    ELSE (IF s[1].fn = fn THEN 1 ELSE 0) + Count(Tail(s), fn)

(* ------------------------------- state --------------------------------- *)
NoQuotes == [fx |-> None, gold |-> None, etf |-> None]

\* what get_gold_and_fx_data got to ask for: a failed fetch ends the sequence
Fetched(fx, gold, etf) ==
    [fx |-> Some(fx),
     gold |-> IF get_yahoo_price(fx).raised = "" THEN Some(gold) ELSE None,
     etf |-> IF get_yahoo_price(fx).raised = "" /\ get_yahoo_price(gold).raised = ""
             THEN Some(etf) ELSE None]

NoInfo == [korean |-> 0, international_krw |-> 0, usd_krw |-> 0, gold_usd |-> 0,
           premium |-> None, market_time |-> None, warning_msg |-> <<>>]

Locals(p, d) ==
    /\ pc = p
    /\ today = d
    /\ info = NoInfo
    /\ history = PyList(<<>>)
    /\ change = Zero
    /\ avg7 = None
    /\ level = ""
    /\ trend = ""
    /\ time_str = <<>>
    /\ full_msg = None
    /\ exc = ""
    /\ failed_at = ""
    /\ quotes = NoQuotes
    /\ calls = <<>>
    /\ incident_len = 0
    /\ logged = FALSE
    /\ escaped = FALSE

Init ==
    /\ file \in {Absent, ArrayText(<<>>)}
    /\ file0 = file
    /\ Locals("idle", 0)
    /\ clock = 0
    /\ clock_back = FALSE
    /\ rt_in = <<>>
    /\ rt_out = <<>>
    /\ rt_pc = "off"

rtVars == <<rt_in, rt_out, rt_pc>>
handlerVars == <<incident_len, logged, escaped>>
envVars == <<clock, clock_back, rtVars>>

(* --------------------------- main(), step by step ---------------------- *)
\* an exception inside main's try block: control moves to the handler
Fail(e) == exc' = e /\ failed_at' = pc /\ pc' = "except"
NoFail == UNCHANGED <<exc, failed_at>>

\* the scheduler starts a run; today = datetime.date.today().isoformat()
Start ==
    /\ pc = "idle"
    /\ file.kind # "array" \/ Len(file.items) < MaxLen
    /\ \E d \in Dates :
          /\ today' = d
          /\ clock' = d
          /\ clock_back' = (clock_back \/ d < clock)
    /\ pc' = "calc"
    /\ file0' = file
    /\ info' = NoInfo
    /\ history' = PyList(<<>>)
    /\ change' = Zero
    /\ avg7' = None
    /\ level' = ""
    /\ trend' = ""
    /\ time_str' = <<>>
    /\ full_msg' = None
    /\ exc' = ""
    /\ failed_at' = ""
    /\ quotes' = NoQuotes
    /\ calls' = <<>>
    /\ incident_len' = 0
    /\ logged' = FALSE
    /\ escaped' = FALSE
    /\ UNCHANGED <<file, rtVars>>

\* history = load_history() placed before info = calc_premium()
CalcStepAfterLoad ==
    /\ pc = "calc"
    /\ history' = load_history(file)
    /\ calls' = Append(calls, Call("load_history", TRUE))
    /\ \E fx \in FxInfos, gold \in GoldInfos, etf \in EtfInfos :
          LET r == calc_premium(fx, gold, etf)
          IN  /\ quotes' = Fetched(fx, gold, etf)
              /\ IF r.raised # ""
                 THEN Fail(r.raised) /\ UNCHANGED info
                 ELSE info' = Val(r.value) /\ pc' = "analyze" /\ NoFail
    /\ UNCHANGED <<file, file0, today, change, avg7, level, trend,
                   time_str, full_msg, handlerVars, envVars>>

\* info = calc_premium()
CalcStep ==
    /\ pc = "calc"
    /\ \E fx \in FxInfos, gold \in GoldInfos, etf \in EtfInfos :
          LET r == calc_premium(fx, gold, etf)
          IN  /\ quotes' = Fetched(fx, gold, etf)
              /\ IF r.raised # ""
                 THEN Fail(r.raised) /\ UNCHANGED info
                 ELSE info' = Val(r.value) /\ pc' = "load" /\ NoFail
    /\ UNCHANGED <<file, file0, today, history, change, avg7, level, trend,
                   time_str, full_msg, calls, handlerVars, envVars>>

\* history = load_history()
LoadStep ==
    /\ pc = "load"
    /\ history' = load_history(file)
    /\ calls' = Append(calls, Call("load_history", TRUE))
    /\ pc' = "analyze"
    /\ UNCHANGED <<file, file0, today, info, change, avg7, level, trend,
                   time_str, full_msg, exc, failed_at, handlerVars, quotes, envVars>>

\* if current_premium is None: ... if history: the last record stands in
AnalyzePast ==
    /\ pc = "analyze"
    /\ info.premium = None
    /\ Truthy(history)
    /\ LET last == last_valid_data(history)
           last7 == LastN(history.items, GraphWindow)
           a7 == Avg7(history.items)
           p == Stored(last.premium)
       IN  IF last.t # "obs"
           THEN /\ Fail("TypeError")
                /\ UNCHANGED <<info, time_str, change, avg7, level, trend>>
           ELSE /\ info' = [info EXCEPT !.premium = Some(p),
                                         !.warning_msg = Append(@, "past_shown")]
                /\ time_str' = <<"past", last.time_kst>>
                /\ change' = Zero
                /\ avg7' = Some(a7)
                /\ \E lv \in LevelOf(p, a7, Len(last7) = 1) : level' = lv
                /\ trend' = "historical"
                /\ pc' = "compose"
                /\ NoFail
    /\ UNCHANGED <<file, file0, today, history, full_msg, calls, handlerVars,
                   quotes, envVars>>

\* if current_premium is None: ... else: no history at all, 0.00% is shown
AnalyzeNone ==
    /\ pc = "analyze"
    /\ info.premium = None
    /\ ~Truthy(history)
    /\ info' = [info EXCEPT !.premium = Some(Zero),
                            !.warning_msg = Append(@, "zero_shown")]
    /\ change' = Zero
    /\ time_str' = <<"now">>
    /\ level' = "N/A"
    /\ trend' = "N/A"
    /\ pc' = "compose"
    /\ UNCHANGED <<file, file0, today, history, avg7, full_msg, exc, failed_at, calls,
                   handlerVars, quotes, envVars>>

\* else: the premium was computed; record it for today and save
AnalyzeComputed ==
    /\ pc = "analyze"
    /\ info.premium # None
    /\ LET current_premium == Val(info.premium)
           ts == timestamp_to_kst(info.market_time)
           new_history_data == Obs(today, round2(current_premium), ts)
       IN  IF history.kind # "list"
           THEN /\ Fail("AttributeError")
                /\ time_str' = ts
                /\ UNCHANGED <<file, history, calls, change, avg7, level, trend>>
           ELSE IF history.items # <<>> /\ history.items[Len(history.items)].t # "obs"
           THEN /\ Fail("TypeError")
                /\ time_str' = ts
                /\ UNCHANGED <<file, history, calls, change, avg7, level, trend>>
           ELSE LET items == Upsert(history.items, new_history_data)
                    prev_premium_data == NotToday(items, today)
                    chg == IF prev_premium_data # <<>>
                           THEN RatSub(current_premium,
                                  Stored(prev_premium_data[Len(prev_premium_data)].premium))
                           ELSE Zero
                    a7 == Avg7(items)
                IN  /\ time_str' = ts
                    /\ history' = PyList(items)
                    /\ file' = save_history(items)
                    /\ calls' = Append(calls, Call("save_history", TRUE))
                    /\ change' = chg
                    /\ avg7' = Some(a7)
                    /\ \E lv \in LevelOf(current_premium, a7, FALSE) : level' = lv
                    /\ \E tr \in TrendOf(chg, prev_premium_data = <<>>) : trend' = tr
                    /\ pc' = "compose"
                    /\ NoFail
    /\ UNCHANGED <<file0, today, info, full_msg, handlerVars, quotes, envVars>>

\* lengths of error_msg (message and traceback) before truncation
ErrLens == {200, TelegramLimit, TelegramLimit + 1, 2 * TelegramLimit}

Min(a, b) == IF a < b THEN a ELSE b

\* msg_data = f"..."; ai_summary = analyze_with_ai(...); full_msg = ...
Compose ==
    /\ pc = "compose"
    /\ IF avg7 = None
       THEN Fail("UnboundLocalError") /\ UNCHANGED full_msg
       ELSE /\ \E ai \in {"summary", "AI error text"} :
                 full_msg' = Some([today |-> today,
                                   time_str |-> time_str,
                                   warning_msg |-> info.warning_msg,
                                   korean |-> info.korean,
                                   international_krw |-> info.international_krw,
                                   gold_usd |-> info.gold_usd,
                                   usd_krw |-> info.usd_krw,
                                   premium |-> round2(Val(info.premium)),
                                   change |-> round2(change),
                                   level |-> level,
                                   avg7 |-> round2(Val(avg7)),
                                   trend |-> trend,
                                   ai_summary |-> ai])
            /\ pc' = "send_text"
            /\ NoFail
    /\ UNCHANGED <<file, file0, today, info, history, change, avg7, level,
                   trend, time_str, calls, handlerVars, quotes, envVars>>

\* send_telegram_text(full_msg)
SendText ==
    /\ pc = "send_text"
    /\ \E ok \in BOOLEAN :
          /\ calls' = Append(calls, Call("report", ok))
          /\ IF ok THEN pc' = "graph" /\ NoFail
                   ELSE Fail("RuntimeError")
    /\ UNCHANGED <<file, file0, today, info, history, change, avg7, level,
                   trend, time_str, full_msg, handlerVars, quotes, envVars>>

\* history[-7:] has at least two points
create_graph(h) == Len(LastN(h.items, GraphWindow)) >= 2

\* graph_buf = create_graph(history); if graph_buf: send_telegram_photo(...)
SendGraph ==
    /\ pc = "graph"
    /\ IF create_graph(history)
       THEN \E ok \in BOOLEAN :
              /\ calls' = Append(calls, Call("photo", ok))
              /\ IF ok THEN pc' = "done" /\ NoFail
                       ELSE Fail("HTTPError")
       ELSE pc' = "done" /\ NoFail /\ UNCHANGED calls
    /\ UNCHANGED <<file, file0, today, info, history, change, avg7, level,
                   trend, time_str, full_msg, handlerVars, quotes, envVars>>

\* the handler lets a failed incident send propagate
HandlerReraises(ok) == [logged |-> FALSE, escaped |-> ~ok]

\* what the handler's own try/except does with a failed incident send
Handler(ok) == [logged |-> ~ok, escaped |-> FALSE]

\* except Exception as e: send_telegram_text(error_msg[:4000]), guarded
Except ==
    /\ pc = "except"
    /\ \E n \in ErrLens, ok \in BOOLEAN :
          /\ incident_len' = Min(n, TelegramLimit)
          /\ calls' = Append(calls, Call("incident", ok))
          /\ logged' = Handler(ok).logged
          /\ escaped' = Handler(ok).escaped
    /\ pc' = "done"
    /\ UNCHANGED <<file, file0, today, info, history, change, avg7, level,
                   trend, time_str, full_msg, exc, failed_at, quotes, envVars>>

\* main() has returned and the process ends; its locals are gone
Exit ==
    /\ pc = "done"
    /\ pc' = "idle"
    /\ today' = 0
    /\ file0' = file
    /\ info' = NoInfo
    /\ history' = PyList(<<>>)
    /\ change' = Zero
    /\ avg7' = None
    /\ level' = ""
    /\ trend' = ""
    /\ time_str' = <<>>
    /\ full_msg' = None
    /\ exc' = ""
    /\ failed_at' = ""
    /\ quotes' = NoQuotes
    /\ calls' = <<>>
    /\ incident_len' = 0
    /\ logged' = FALSE
    /\ escaped' = FALSE
    /\ UNCHANGED <<file, envVars>>

\* between runs the file is damaged from outside: unparseable text, the
\* text "{}", or the text "[0]"
CorruptFile ==
    /\ pc = "idle"
    /\ file' \in {Garbage, ObjectText, ArrayText(<<EncodeItem(NumElem)>>)}
    /\ file' # file
    /\ file0' = file'
    /\ UNCHANGED <<pc, today, info, history, change, avg7, level, trend,
                   time_str, full_msg, exc, failed_at, calls, handlerVars, quotes, envVars>>

Next ==
    \/ Start
    \/ CalcStep
    \/ LoadStep
    \/ AnalyzePast
    \/ AnalyzeNone
    \/ AnalyzeComputed
    \/ Compose
    \/ SendText
    \/ SendGraph
    \/ Except
    \/ Exit
    \/ CorruptFile

Spec == Init /\ [][Next]_vars

(* -------------------- save_history / load_history alone ---------------- *)
\* the n observations of days 1..n; premiums follow the pattern k
Observations(n, k) ==
    [i \in 1..n |-> Obs(i, ((i * k) % 417) - 208,
                        IF i % 2 = 0 THEN <<"N/A">> ELSE <<"KST", i>>)]

Patterns == {1, 7, 53}

InitRT ==
    /\ file \in {Absent, Garbage}
    /\ file0 = file
    /\ Locals("off", 0)
    /\ clock = 0
    /\ clock_back = FALSE
    /\ \E n \in 0..MaxN, k \in Patterns : rt_in = Observations(n, k)
    /\ rt_out = <<>>
    /\ rt_pc = "save"

mainVars == <<file0, pc, today, info, history, change, avg7, level, trend,
              time_str, full_msg, exc, calls, incident_len, logged, escaped,
              failed_at, quotes, clock, clock_back>>

SaveRT ==
    /\ rt_pc = "save"
    /\ file' = save_history(rt_in)
    /\ rt_pc' = "load"
    /\ UNCHANGED <<rt_in, rt_out, mainVars>>

LoadRT ==
    /\ rt_pc = "load"
    /\ rt_out' = load_history(file).items
    /\ rt_pc' = "done"
    /\ UNCHANGED <<file, rt_in, mainVars>>

NextRT == SaveRT \/ LoadRT

SpecRT == InitRT /\ [][NextRT]_vars

(* ------------------------------ properties ----------------------------- *)
IsArray(f) == f.kind = "array"

NoTwoSameDate(f) ==
    \A i, j \in 1..Len(f.items) :
        i # j => DecodeItem(f.items[i]).date # DecodeItem(f.items[j]).date

\* content that is not an array of observations
Invalid(f) ==
    \/ f.kind \in {"garbage", "object"}
    \/ IsArray(f) /\ \E i \in 1..Len(f.items) : f.items[i].t # "obs"

\* the history the run found: a non-empty array of observations
PriorHistory == IsArray(file0) /\ ~Invalid(file0) /\ Len(file0.items) > 0
\* the run found no file, or an empty array
NoPriorHistory == file0.kind = "absent" \/ (IsArray(file0) /\ Len(file0.items) = 0)

EtfFetched == quotes.etf # None
MarketPrice ==
    IF Val(quotes.etf).regularMarketPrice # None
    THEN Val(quotes.etf).regularMarketPrice
    ELSE Val(quotes.etf).previousClose
\* the three fetches gave a price
QuotesOk == EtfFetched /\ MarketPrice # None
NavAbsent == QuotesOk /\ Val(quotes.etf).navPrice = None
NavPositive ==
    QuotesOk /\ Val(quotes.etf).navPrice # None /\ Val(Val(quotes.etf).navPrice) > 0
NavNotPositive ==
    QuotesOk /\ Val(quotes.etf).navPrice # None /\ Val(Val(quotes.etf).navPrice) <= 0
PrevComplete ==
    /\ QuotesOk
    /\ Val(quotes.etf).previousClose # None
    /\ Val(quotes.gold).previousClose # None
    /\ Val(quotes.fx).previousClose # None

Reported == full_msg # None
LastCall == calls[Len(calls)]

\* C1 (as claimed): after any runs, on any sequence of reporting days, the
\* persisted history holds no two observations with the same date.
C1_NoTwoObservationsPerDate == IsArray(file) => NoTwoSameDate(file)

\* C1 (amended): as long as no run started on an earlier day than the run
\* before it, the persisted history holds no two observations with the same
\* date.
C1_OnePerDateWhileDaysAdvance ==
    ~clock_back => (IsArray(file) => NoTwoSameDate(file))

\* a second computed run on a day already present replaced that day's entry
C1_Witness ==
    /\ pc = "compose"
    /\ ~clock_back
    /\ Count(calls, "save_history") = 1
    /\ PriorHistory
    /\ Len(file0.items) >= 2
    /\ Len(file.items) = Len(file0.items)
    /\ file # file0

\* C2: save_history then load_history gives back exactly the last
\* min(n, 100) of the n entries, oldest first, and the saved file never
\* holds more than 100 entries.
C2_SaveLoadKeepsLast100 ==
    /\ rt_pc # "save" => (IsArray(file) /\ Len(file.items) <= 100)
    /\ rt_pc = "done" =>
          LET n == Len(rt_in)
              k == IF n < 100 THEN n ELSE 100
          IN  /\ Len(rt_out) = k
              /\ \A i \in 1..k : rt_out[i] = rt_in[n - k + i]

\* 150 entries saved and loaded: entries 51..150 come back
C2_Witness ==
    /\ rt_pc = "done"
    /\ Len(rt_in) = 150
    /\ Len(rt_out) = 100
    /\ rt_out[1] = rt_in[51]
    /\ rt_out[1].premium < 0

\* C3 (as claimed): for any structurally invalid file content load_history
\* yields the empty sequence, and the run does not end in the fatal-error
\* path because of that content.
C3_InvalidContentReadsAsEmpty ==
    (Invalid(file0) /\ Count(calls, "load_history") = 1) =>
        /\ pc = "analyze" => history.items = <<>>
        /\ failed_at # "analyze"

\* C4: when a quote fetch fails, the run neither reads nor writes the
\* history file, sends no normal report, and attempts exactly one incident
\* notification.
C4_FetchFailureAborts ==
    (failed_at = "calc" /\ exc = "RuntimeError") =>
        /\ file = file0
        /\ Count(calls, "load_history") = 0
        /\ Count(calls, "save_history") = 0
        /\ Count(calls, "report") = 0
        /\ ~Reported
        /\ pc = "except" => calls = <<>>
        /\ pc = "done" => Len(calls) = 1 /\ calls[1].fn = "incident"

\* the gold fetch failed on a run that found a history; the incident went out
C4_Witness ==
    /\ pc = "done"
    /\ failed_at = "calc"
    /\ exc = "RuntimeError"
    /\ quotes.gold # None
    /\ quotes.etf = None
    /\ PriorHistory
    /\ calls = <<Call("incident", TRUE)>>

\* C5 (as claimed): with no NAV and an empty history the run does not abort:
\* the normal report is composed with premium 0 and both labels unknown, and
\* no incident is sent (other than for a failed delivery).
C5_NoNavNoHistoryStillReports ==
    (NavAbsent /\ NoPriorHistory /\ pc \in {"send_text", "graph", "except", "done"}) =>
        /\ Reported
        /\ Val(full_msg).premium = 0
        /\ Val(full_msg).level = "N/A"
        /\ Val(full_msg).trend = "N/A"
        /\ exc # "" => failed_at \in {"send_text", "graph"}

\* C6: with no NAV and a non-empty history the reported premium is the last
\* stored observation's premium, the day-over-day change is 0 and the trend
\* label is the historical one.
C6_PastPremiumShown ==
    (NavAbsent /\ PriorHistory /\ pc \in {"compose", "send_text", "graph", "except", "done"}) =>
        /\ change = Zero
        /\ trend = "historical"
        /\ info.premium = Some(Stored(ParseFloat(file0.items[Len(file0.items)].premium)))
        /\ failed_at \in {"", "send_text", "graph"}
        /\ pc # "compose" =>
              /\ Reported
              /\ Val(full_msg).premium = ParseFloat(file0.items[Len(file0.items)].premium)
              /\ Val(full_msg).change = 0
              /\ Val(full_msg).trend = "historical"

\* no NAV, no previous close of the ETF, two differing stored premiums: the
\* delivered report carries the last one
C6_Witness ==
    /\ pc = "graph"
    /\ NavAbsent
    /\ Val(quotes.etf).previousClose = None
    /\ PriorHistory
    /\ Len(file0.items) = 2
    /\ ParseFloat(file0.items[1].premium) = -37
    /\ Val(full_msg).premium = 111
    /\ LastCall = Call("report", TRUE)

\* the estimate of section 4.2, method 2: the ETF's previous close over
\* yesterday's per-gram value, applied to today's per-gram value (the gram
\* conversion cancels), and the premium of the market price against it
RatMul(a, b) == Rat(a.num * b.num, a.den * b.den)
YahooPrice(q) ==
    IF q.regularMarketPrice # None THEN Val(q.regularMarketPrice)
    ELSE Val(q.previousClose)
RatioEstimate ==
    LET gold == Val(quotes.gold)
        fx == Val(quotes.fx)
        etf == Val(quotes.etf)
    IN  RatMul(RatMul(Rat(YahooPrice(gold), Val(gold.previousClose)),
                      Rat(YahooPrice(fx), Val(fx.previousClose))),
               Rat(Val(etf.previousClose), 1))
RatioPremium ==
    Rat((Val(MarketPrice) * RatioEstimate.den - RatioEstimate.num) * 100,
        RatioEstimate.num)

C8_NonPositiveNavIsUnavailable ==
    NavNotPositive =>
        /\ exc # "ZeroDivisionError"
        /\ pc \in {"load", "analyze"} => info.premium = None
        /\ Count(calls, "save_history") = 0

\* the file holds today's observation alone, its premium the hundredth
\* nearest to (price / nav - 1) * 100, and the change is 0
FirstObservationStored ==
    LET price == Val(MarketPrice)
        nav == Val(Val(quotes.etf).navPrice)
        p == ParseFloat(file.items[1].premium)
        d == (price - nav) * 10000 - p * nav
    IN  /\ IsArray(file)
        /\ Len(file.items) = 1
        /\ DecodeItem(file.items[1]).date = today
        /\ 2 * Abs(d) <= nav
        /\ change = Zero
        /\ Reported => Val(full_msg).change = 0 /\ Val(full_msg).premium = p

\* C9 (as claimed): on a run with empty prior history and a positive NAV the
\* rounded premium is stored as the sole entry, the change is 0 and the
\* valuation label is unknown, neither over nor under.
C9_FirstObservationLabelUnknown ==
    (NavPositive /\ NoPriorHistory /\ pc \in {"compose", "send_text", "graph"}) =>
        /\ FirstObservationStored
        /\ level \notin {"over", "under"}

\* C9 (amended): on a run with empty prior history and a positive NAV the
\* rounded premium is stored as the sole entry, the change is 0 and the
\* valuation label is over when the unrounded premium is above the stored
\* one and under when it is below; it is never unknown.
C9_FirstObservationStored ==
    (NavPositive /\ NoPriorHistory /\ pc \in {"compose", "send_text", "graph"}) =>
        LET price == Val(MarketPrice)
            nav == Val(Val(quotes.etf).navPrice)
            p == ParseFloat(file.items[1].premium)
        IN  /\ FirstObservationStored
            /\ level \in {"over", "under"}
            /\ (price - nav) * 10000 > p * nav => level = "over"
            /\ (price - nav) * 10000 < p * nav => level = "under"
            /\ Reported => Val(full_msg).level = level

\* price 27300 against NAV 27000 on a first run: 1.11 stored, label over;
C9_Witness ==
    /\ pc = "send_text"
    /\ NavPositive
    /\ NoPriorHistory
    /\ MarketPrice = Some(27300)
    /\ file.items = <<EncodeItem(Obs(today, 111, <<"KST", 1700032400>>))>>
    /\ Val(full_msg).level = "over"
    /\ Val(full_msg).change = 0

\* C10: no exception leaves main(); a run that failed anywhere attempts
\* exactly one incident notification of at most 4000 characters, after the
\* failure and as its last operation, and a failed incident notification is
\* only logged.
C10_OneIncidentNothingEscapes ==
    /\ ~escaped
    /\ exc = "" => Count(calls, "incident") = 0 /\ ~logged
    /\ pc = "except" => exc # "" /\ Count(calls, "incident") = 0
    /\ (pc = "done" /\ exc # "") =>
          /\ Count(calls, "incident") = 1
          /\ LastCall.fn = "incident"
          /\ incident_len <= 4000
          /\ logged = ~LastCall.ok
    /\ pc = "done" => (exc # "" <=> failed_at # "")

\* the photo delivery failed, the incident text was cut to 4000 characters,
\* its delivery failed too and was logged
C10_Witness ==
    /\ pc = "done"
    /\ failed_at = "graph"
    /\ incident_len = 4000
    /\ Count(calls, "photo") = 1
    /\ LastCall = Call("incident", FALSE)
    /\ logged

====
